---- MODULE Spec2Model ----
(***************************************************************************)
(* SimpleOS (src/Claude/SimpleOS/main.c): the block allocator, the process *)
(* table with its round-robin scheduler, and the file table, as one state  *)
(* machine over the global `simple_os`.                                    *)
(*                                                                         *)
(* Not modelled: the byte buffer simple_os.memory (never read or written), *)
(* Process.name (written by process_create, read only by the "ps"          *)
(* printout) and the shell's text parsing.                                 *)
(***************************************************************************)
EXTENDS Integers, Sequences, FiniteSets, TLC

(* ------------------------------ sizes --------------------------------- *)
\* main.c:16 has 16; scaled down, the block count below follows it.
MAX_PROCESSES == 3
\* main.c:21
PROCESS_MEMORY_SIZE == 4096
\* main.c:20 has 65536 = 16 * 4096 = MAX_PROCESSES * PROCESS_MEMORY_SIZE
MEMORY_SIZE == MAX_PROCESSES * PROCESS_MEMORY_SIZE
\* main.c:17 has 32; scaled down
MAX_FILES == 2
\* main.c:18 has 32; scaled down
MAX_FILENAME_LEN == 3
\* number of distinct non-NUL characters in file names
NumChars == 2
\* file names passed in have 0 .. MAX_FILENAME_LEN + ExtraLen characters
ExtraLen == 1

\* 0xFF, the error value of process_create (main.c:117)
PID_ERROR == 255

\* the number of uint16_t values: 65536 in the source, which is MEMORY_SIZE
\* there, so that every address value lies in some block (main.c:20, 38, 83)
ADDR_VALUES == MEMORY_SIZE
\* 0xFFFF, the error value of memory_allocate (main.c:90): the largest
\* uint16_t, which in the source is MEMORY_SIZE - 1, the last byte of the
\* last block
MEM_ERROR == ADDR_VALUES - 1

NUM_BLOCKS == MEMORY_SIZE \div PROCESS_MEMORY_SIZE
Blocks == 0 .. (NUM_BLOCKS - 1)
Pids == 0 .. (MAX_PROCESSES - 1)
FileIds == 0 .. (MAX_FILES - 1)

\* ProcessState, main.c:27-32
PROCESS_READY == "READY"
PROCESS_RUNNING == "RUNNING"
PROCESS_BLOCKED == "BLOCKED"
PROCESS_TERMINATED == "TERMINATED"
ProcessState == {PROCESS_READY, PROCESS_RUNNING, PROCESS_BLOCKED, PROCESS_TERMINATED}

Min(S) == CHOOSE x \in S : \A y \in S : x <= y

(* ------------------------------ inputs -------------------------------- *)
Chars == 1 .. NumChars
MaxNameLen == MAX_FILENAME_LEN + ExtraLen
RECURSIVE SeqsUpTo(_)
SeqsUpTo(n) ==
  IF n = 0 THEN {<<>>}
  ELSE LET S == SeqsUpTo(n - 1)
       IN  S \cup {Append(s, c) : s \in {t \in S : Len(t) = n - 1}, c \in Chars}
\* the C strings a caller can pass as a file name (NUL-terminated, no NUL inside)
Names == SeqsUpTo(MaxNameLen)
\* two file names, the empty one and a one-character one, for the
\* specification that runs the file interface next to the process interface
FrameNames == {n \in Names : n = <<>> \/ n = <<1>>}
\* uint8_t pid arguments: every slot, the first out-of-range value, 0xFF
PidArgs == Pids \cup {MAX_PROCESSES, PID_ERROR}
\* uint16_t start_address arguments: block starts, an address inside a block,
\* 0xFFFF
AddrArgs == {b * PROCESS_MEMORY_SIZE : b \in Blocks}
            \cup {PROCESS_MEMORY_SIZE + 1, MEM_ERROR}

(* ------------------------------ state --------------------------------- *)
VARIABLES
  memory_map,       \* simple_os.memory_map : block -> BOOLEAN
  processes,        \* simple_os.processes  : pid -> Process
  current_process,  \* simple_os.current_process (uint8_t)
  process_count,    \* simple_os.process_count (uint8_t)
  file_table,       \* simple_os.file_table : file id -> FileEntry
  last,             \* the last call made: function, argument, return value,
                    \* and the source line of the return statement taken
  created_as        \* history: file id -> the name argument of the fs_create
                    \* call that filled the entry (NoName while it is free)

vars == <<memory_map, processes, current_process, process_count, file_table,
          last, created_as>>
memVars == <<memory_map>>
procVars == <<processes, current_process, process_count>>
kernelVars == <<memory_map, processes, current_process, process_count>>
osVars == <<memory_map, processes, current_process, process_count, file_table>>

NoName == <<>>
Call(op, arg, name, ret, line) ==
  [op |-> op, arg |-> arg, name |-> name, ret |-> ret, line |-> line]

(* --------------------------- memory management ------------------------ *)
\* memory_init, main.c:76-80
memory_init == [b \in Blocks |-> FALSE]

FreeBlocks(map) == {b \in Blocks : ~map[b]}

\* a memory_allocate that reports exhaustion as address 0
memory_allocate_ret_zero(map) ==
  IF FreeBlocks(map) = {} THEN 0
  ELSE (Min(FreeBlocks(map)) * PROCESS_MEMORY_SIZE) % ADDR_VALUES

\* memory_allocate, main.c:83-91: the value returned (uint16_t)
memory_allocate_ret(map) ==
  IF FreeBlocks(map) = {} THEN MEM_ERROR
  ELSE (Min(FreeBlocks(map)) * PROCESS_MEMORY_SIZE) % ADDR_VALUES

\* a memory_allocate that marks the last free block instead of the first
memory_allocate_map_highest(map) ==
  IF FreeBlocks(map) = {} THEN map
  ELSE [map EXCEPT ![CHOOSE b \in FreeBlocks(map) :
                        \A c \in FreeBlocks(map) : c <= b] = TRUE]

\* memory_allocate, main.c:83-91: the bitmap it leaves
memory_allocate_map(map) ==
  IF FreeBlocks(map) = {} THEN map
  ELSE [map EXCEPT ![Min(FreeBlocks(map))] = TRUE]

\* a memory_free that forgets to clear the flag
memory_free_map_leak(map, start_address) == map

\* memory_free, main.c:94-99: the bitmap it leaves
memory_free_map(map, start_address) ==
  LET block == start_address \div PROCESS_MEMORY_SIZE
  IN  IF block < NUM_BLOCKS THEN [map EXCEPT ![block] = FALSE] ELSE map

(* --------------------------- process management ----------------------- *)
\* process_init, main.c:104-112; the fields it does not set are zero, the
\* global simple_os having static storage
process_init ==
  [p \in Pids |-> [id |-> 0, state |-> PROCESS_TERMINATED, memory_start |-> 0,
                   memory_size |-> 0, program_counter |-> 0]]

\* a slot search that scans from the top of the table
FindSlot_highest(procs) ==
  IF \E p \in Pids : procs[p].state = PROCESS_TERMINATED
  THEN CHOOSE p \in Pids : /\ procs[p].state = PROCESS_TERMINATED
                           /\ \A q \in Pids : procs[q].state = PROCESS_TERMINATED => q <= p
  ELSE MAX_PROCESSES

\* process_create, main.c:121-124: the slot search
FindSlot(procs) ==
  IF \E p \in Pids : procs[p].state = PROCESS_TERMINATED
  THEN Min({p \in Pids : procs[p].state = PROCESS_TERMINATED})
  ELSE MAX_PROCESSES

\* a setup that starts the new process as Running
SetupProcess_running(pid, mem_start) ==
  [id |-> pid, state |-> PROCESS_RUNNING, memory_start |-> mem_start,
   memory_size |-> PROCESS_MEMORY_SIZE, program_counter |-> 0]

\* process_create, main.c:137-142: the slot as set up
SetupProcess(pid, mem_start) ==
  [id |-> pid, state |-> PROCESS_READY, memory_start |-> mem_start,
   memory_size |-> PROCESS_MEMORY_SIZE, program_counter |-> 0]

\* process_create, main.c:115-154
process_create ==
  IF process_count >= MAX_PROCESSES
  THEN /\ last' = Call("process_create", 0, NoName, PID_ERROR, 117)
       /\ UNCHANGED osVars
  ELSE LET pid == FindSlot(processes)
       IN  IF pid >= MAX_PROCESSES
           THEN /\ last' = Call("process_create", 0, NoName, PID_ERROR, 127)
                /\ UNCHANGED osVars
           ELSE LET mem_start == memory_allocate_ret(memory_map)
                IN  IF mem_start = MEM_ERROR
                    THEN /\ memory_map' = memory_allocate_map(memory_map)
                         /\ last' = Call("process_create", 0, NoName, PID_ERROR, 133)
                         /\ UNCHANGED <<processes, current_process, process_count, file_table>>
                    ELSE /\ memory_map' = memory_allocate_map(memory_map)
                         /\ processes' = [processes EXCEPT ![pid] = SetupProcess(pid, mem_start)]
                         /\ process_count' = (process_count + 1) % 256
                         /\ last' = Call("process_create", 0, NoName, pid, 153)
                         /\ UNCHANGED <<current_process, file_table>>

\* an early return that checks the range only
TerminateIgnored_range(procs, pid) == pid >= MAX_PROCESSES

\* process_terminate, main.c:158: the early return
TerminateIgnored(procs, pid) ==
  pid >= MAX_PROCESSES \/ procs[pid].state = PROCESS_TERMINATED

\* process_terminate, main.c:157-168
process_terminate(pid) ==
  IF TerminateIgnored(processes, pid)
  THEN /\ last' = Call("process_terminate", pid, NoName, 0, 159)
       /\ UNCHANGED osVars
  ELSE /\ memory_map' = memory_free_map(memory_map, processes[pid].memory_start)
       /\ processes' = [processes EXCEPT ![pid].state = PROCESS_TERMINATED]
       /\ process_count' = (process_count - 1) % 256
       /\ last' = Call("process_terminate", pid, NoName, 0, 168)
       /\ UNCHANGED <<current_process, file_table>>

\* process_schedule, main.c:177-191: the slots the loop visits, in order:
\* current+1, current+2, ... (mod MAX_PROCESSES), stopping before current
ScanOrder(cur) == [k \in 1 .. (MAX_PROCESSES - 1) |-> (cur + k) % MAX_PROCESSES]

\* a scan that always starts at slot 0 instead of after the current slot
NextReady_lowest(procs, cur) ==
  IF \E p \in Pids \ {cur} : procs[p].state = PROCESS_READY
  THEN Min({p \in Pids \ {cur} : procs[p].state = PROCESS_READY})
  ELSE MAX_PROCESSES

\* process_schedule, main.c:178-191: the first READY slot of the scan, or
\* MAX_PROCESSES when the loop ends without one
NextReady(procs, cur) ==
  LET hits == {k \in 1 .. (MAX_PROCESSES - 1) : procs[ScanOrder(cur)[k]].state = PROCESS_READY}
  IN  IF hits = {} THEN MAX_PROCESSES ELSE ScanOrder(cur)[Min(hits)]

\* a switch that parks the preempted process as Blocked
SwitchTo_block(procs, cur, next) ==
  LET demoted == IF procs[cur].state = PROCESS_RUNNING
                 THEN [procs EXCEPT ![cur].state = PROCESS_BLOCKED]
                 ELSE procs
  IN  [demoted EXCEPT ![next].state = PROCESS_RUNNING]

\* a switch that does not demote the running process
SwitchTo_keep(procs, cur, next) == [procs EXCEPT ![next].state = PROCESS_RUNNING]

\* process_schedule, main.c:181-187: the table after the switch to `next`
SwitchTo(procs, cur, next) ==
  LET demoted == IF procs[cur].state = PROCESS_RUNNING
                 THEN [procs EXCEPT ![cur].state = PROCESS_READY]
                 ELSE procs
  IN  [demoted EXCEPT ![next].state = PROCESS_RUNNING]

\* process_schedule, main.c:171-192
process_schedule ==
  IF process_count = 0
  THEN /\ last' = Call("process_schedule", 0, NoName, 0, 173)
       /\ UNCHANGED osVars
  ELSE LET next_process == NextReady(processes, current_process)
       IN  IF next_process = MAX_PROCESSES
           THEN /\ last' = Call("process_schedule", 0, NoName, 0, 192)
                /\ UNCHANGED osVars
           ELSE /\ processes' = SwitchTo(processes, current_process, next_process)
                /\ current_process' = next_process
                /\ last' = Call("process_schedule", 0, NoName, 0, 188)
                /\ UNCHANGED <<memory_map, process_count, file_table>>

\* process_schedule, main.c:171-192, as a function of the state it reads
\* and writes: the process table, current_process and process_count
ScheduleOnce(st) ==
  IF st.count = 0 THEN st
  ELSE LET next_process == NextReady(st.procs, st.cur)
       IN  IF next_process = MAX_PROCESSES THEN st
           ELSE [procs |-> SwitchTo(st.procs, st.cur, next_process),
                 cur |-> next_process, count |-> st.count]

\* memory_allocate, main.c:83-91, called directly
memory_allocate ==
  /\ memory_map' = memory_allocate_map(memory_map)
  /\ last' = Call("memory_allocate", 0, NoName, memory_allocate_ret(memory_map),
                  IF FreeBlocks(memory_map) = {} THEN 90 ELSE 87)
  /\ UNCHANGED <<processes, current_process, process_count, file_table>>

\* memory_free, main.c:94-99, called directly
memory_free(start_address) ==
  /\ memory_map' = memory_free_map(memory_map, start_address)
  /\ last' = Call("memory_free", start_address, NoName, 0, 99)
  /\ UNCHANGED <<processes, current_process, process_count, file_table>>

(* ------------------------------ file system --------------------------- *)
NameIdx == 0 .. (MAX_FILENAME_LEN - 1)

\* filename[j] of a NUL-terminated C string, j <= its length
CharAt(filename, j) == IF j < Len(filename) THEN filename[j + 1] ELSE 0

\* fs_init, main.c:197-201; the fields it does not set are zero (static storage)
fs_init ==
  [f \in FileIds |-> [filename |-> [j \in NameIdx |-> 0], start_block |-> 0,
                      size |-> 0, in_use |-> FALSE]]

\* the comparison loop, main.c:221-230 and 257-266, from index j on
RECURSIVE MatchFrom(_, _, _)
MatchFrom(stored, filename, j) ==
  IF j >= MAX_FILENAME_LEN THEN TRUE
  ELSE IF stored[j] # CharAt(filename, j) THEN FALSE
  ELSE IF CharAt(filename, j) = 0 THEN TRUE
  ELSE MatchFrom(stored, filename, j + 1)

\* main.c:221-230, 257-266: does the entry's filename field match the argument
NameMatch(stored, filename) == MatchFrom(stored, filename, 0)

\* fs_create, main.c:239-244: the filename field after the copy; bytes past
\* the terminator keep what they held
CopyName(stored, filename) ==
  LET n == IF Len(filename) < MAX_FILENAME_LEN - 1 THEN Len(filename)
           ELSE MAX_FILENAME_LEN - 1
  IN  [j \in NameIdx |-> IF j < n THEN filename[j + 1]
                         ELSE IF j = n THEN 0 ELSE stored[j]]

\* fs_create, main.c:206-212: the first free entry, or -1
FindFreeFile(table) ==
  IF \E f \in FileIds : ~table[f].in_use
  THEN Min({f \in FileIds : ~table[f].in_use})
  ELSE -1

\* fs_create, main.c:219-235: some in-use entry matches
NameExists(table, filename) ==
  \E f \in FileIds : table[f].in_use /\ NameMatch(table[f].filename, filename)

\* fs_create, main.c:204-250
fs_create(filename) ==
  LET file_id == FindFreeFile(file_table)
  IN  IF file_id = -1
      THEN /\ last' = Call("fs_create", 0, filename, -1, 215)
           /\ UNCHANGED <<osVars, created_as>>
      ELSE IF NameExists(file_table, filename)
      THEN /\ last' = Call("fs_create", 0, filename, -2, 232)
           /\ UNCHANGED <<osVars, created_as>>
      ELSE /\ file_table' = [file_table EXCEPT ![file_id] =
                               [filename |-> CopyName(@.filename, filename),
                                start_block |-> 0, size |-> 0, in_use |-> TRUE]]
           /\ last' = Call("fs_create", 0, filename, file_id, 249)
           /\ created_as' = [created_as EXCEPT ![file_id] = filename]
           /\ UNCHANGED kernelVars

\* fs_delete, main.c:255-272: the first in-use entry that matches, or -1
FindFile(table, filename) ==
  IF NameExists(table, filename)
  THEN Min({f \in FileIds : table[f].in_use /\ NameMatch(table[f].filename, filename)})
  ELSE -1

\* an fs_delete that also hands the entry's start_block back to the allocator
fs_delete_freeing(filename) ==
  LET f == FindFile(file_table, filename)
  IN  IF f = -1
      THEN /\ last' = Call("fs_delete", 0, filename, 0, 273)
           /\ UNCHANGED <<osVars, created_as>>
      ELSE /\ file_table' = [file_table EXCEPT ![f].in_use = FALSE]
           /\ memory_map' = memory_free_map(memory_map, file_table[f].start_block)
           /\ last' = Call("fs_delete", 0, filename, 1, 269)
           /\ created_as' = [created_as EXCEPT ![f] = NoName]
           /\ UNCHANGED <<processes, current_process, process_count>>

\* fs_delete, main.c:253-274 (the bool result as 1 / 0)
fs_delete(filename) ==
  LET f == FindFile(file_table, filename)
  IN  IF f = -1
      THEN /\ last' = Call("fs_delete", 0, filename, 0, 273)
           /\ UNCHANGED <<osVars, created_as>>
      ELSE /\ file_table' = [file_table EXCEPT ![f].in_use = FALSE]
           /\ last' = Call("fs_delete", 0, filename, 1, 269)
           /\ created_as' = [created_as EXCEPT ![f] = NoName]
           /\ UNCHANGED kernelVars

(* --------------------------- specifications --------------------------- *)
\* os_init, main.c:428-438
Init ==
  /\ memory_map = memory_init
  /\ processes = process_init
  /\ current_process = 0
  /\ process_count = 0
  /\ file_table = fs_init
  /\ last = Call("os_init", 0, NoName, 0, 437)
  /\ created_as = [f \in FileIds |-> NoName]

ProcessCreate == process_create /\ UNCHANGED created_as
ProcessTerminate == \E pid \in PidArgs : process_terminate(pid) /\ UNCHANGED created_as
ProcessSchedule == process_schedule /\ UNCHANGED created_as
MemoryAllocate == memory_allocate /\ UNCHANGED created_as
MemoryFree == \E a \in AddrArgs : memory_free(a) /\ UNCHANGED created_as
FsCreate == \E n \in Names : fs_create(n)
FsDelete == \E n \in Names : fs_delete(n)

\* the process interface alone: create, terminate, schedule
NextProc == ProcessCreate \/ ProcessTerminate \/ ProcessSchedule
SpecProc == Init /\ [][NextProc]_vars

\* the process interface and direct calls of memory_allocate
NextAlloc == ProcessCreate \/ ProcessTerminate \/ ProcessSchedule \/ MemoryAllocate
SpecAlloc == Init /\ [][NextAlloc]_vars

\* create, terminate and the allocator interface (no scheduling)
NextMem == ProcessCreate \/ ProcessTerminate \/ MemoryAllocate \/ MemoryFree
SpecMem == Init /\ [][NextMem]_vars

\* the process interface and the allocator interface
NextKernel ==
  ProcessCreate \/ ProcessTerminate \/ ProcessSchedule \/ MemoryAllocate \/ MemoryFree
SpecKernel == Init /\ [][NextKernel]_vars

\* the process interface and the file interface together, the file names
\* drawn from FrameNames
FsCreateFrame == \E n \in FrameNames : fs_create(n)
FsDeleteFrame == \E n \in FrameNames : fs_delete(n)
NextFrame ==
  ProcessCreate \/ ProcessTerminate \/ ProcessSchedule \/ FsCreateFrame \/ FsDeleteFrame
SpecFrame == Init /\ [][NextFrame]_vars

\* the file interface alone
NextFS == FsCreate \/ FsDelete
SpecFS == Init /\ [][NextFS]_vars

\* every operation of the core
Next ==
  \/ ProcessCreate
  \/ ProcessTerminate
  \/ ProcessSchedule
  \/ MemoryAllocate
  \/ MemoryFree
  \/ FsCreate
  \/ FsDelete
Spec == Init /\ [][Next]_vars

(* ------------------------- claims: process table --------------------- *)
Live(procs) == {p \in Pids : procs[p].state # PROCESS_TERMINATED}
Ready(procs) == {p \in Pids : procs[p].state = PROCESS_READY}
Running(procs) == {p \in Pids : procs[p].state = PROCESS_RUNNING}
\* the live processes whose memory_start is the start of block b
Owners(b) == {p \in Live(processes) : processes[p].memory_start = b * PROCESS_MEMORY_SIZE}

\* C1: under create / terminate / schedule alone, a block's bitmap flag is
\* true iff exactly one live (non-Terminated) process has the block as its
\* memory_start; no block has two live owners and no used block has none.
C1_BlockOwnedByOneLiveProcess ==
  \A b \in Blocks :
    /\ memory_map[b] <=> Cardinality(Owners(b)) = 1
    /\ Cardinality(Owners(b)) <= 1
    /\ memory_map[b] => Owners(b) # {}

\* C1's case: a terminate has just released its block while another process
\* still holds one
C1_Witness ==
  /\ last.op = "process_terminate" /\ last.line = 168
  /\ \E b \in Blocks : memory_map[b]
  /\ \E b \in Blocks : ~memory_map[b]
  /\ ~memory_map[processes[last.arg].memory_start \div PROCESS_MEMORY_SIZE]

\* C2: at most one process slot is in state Running.
C2_AtMostOneRunning == Cardinality(Running(processes)) <= 1

\* C2's case: the scheduler has just switched away from a running process
C2_Witness ==
  /\ last.op = "process_schedule" /\ last.line = 188
  /\ Running(processes) # {}
  /\ Cardinality(Ready(processes)) >= 2

\* C4: a schedule() call made when exactly one process is Ready and none is
\* Running makes that process Running, whatever its slot and whatever
\* current_process is; from the initial state create returns pid 0 in state
\* Ready; a schedule() made when the only live process is Running leaves it
\* Running.
C4_LoneReadyIsPromoted ==
  [][ /\ ( /\ last'.op = "process_schedule"
           /\ Cardinality(Ready(processes)) = 1
           /\ Running(processes) = {} )
         => \A r \in Ready(processes) : processes'[r].state = PROCESS_RUNNING
      /\ ( /\ last'.op = "process_create"
           /\ last.op = "os_init" )
         => /\ last'.ret = 0
            /\ processes'[0].state = PROCESS_READY
      /\ ( /\ last'.op = "process_schedule"
           /\ Cardinality(Live(processes)) = 1
           /\ Cardinality(Running(processes)) = 1 )
         => /\ processes' = processes
            /\ current_process' = current_process
    ]_vars

\* C5: with every slot live, create returns the error value from the
\* live-count check and changes nothing; the create that follows a
\* terminate(p) of a live p in a full table succeeds, returns p, and leaves
\* slot p Ready with program counter 0 and one block assigned; a successful
\* create always returns the lowest-index Terminated slot.
C5_FullTableThenReuse ==
  [][ last'.op = "process_create" =>
        /\ Live(processes) = Pids
             => /\ last'.ret = PID_ERROR
                /\ last'.line = 117
                /\ UNCHANGED osVars
        /\ ( /\ last.op = "process_terminate"
             /\ last.line = 168
             /\ Live(processes) = Pids \ {last.arg} )
             => /\ last'.ret = last.arg
                /\ last'.line = 153
                /\ processes'[last.arg].state = PROCESS_READY
                /\ processes'[last.arg].program_counter = 0
                /\ processes'[last.arg].memory_size = PROCESS_MEMORY_SIZE
                /\ \E b \in Blocks :
                     /\ processes'[last.arg].memory_start = b * PROCESS_MEMORY_SIZE
                     /\ ~memory_map[b]
                     /\ memory_map' = [memory_map EXCEPT ![b] = TRUE]
                /\ process_count' = MAX_PROCESSES
        /\ last'.line = 153
             => /\ last'.ret \in Pids \ Live(processes)
                /\ \A q \in Pids \ Live(processes) : last'.ret <= q
    ]_vars

\* C5's case: the table is full again after a create that reused slot 0,
\* which a terminate had freed while the higher slots stayed live
C5_Witness ==
  /\ last.op = "process_create" /\ last.line = 153 /\ last.ret = 0
  /\ Live(processes) = Pids
  /\ process_count = MAX_PROCESSES

\* C6: when every block is marked used and some slot is Terminated, create
\* returns the error value from the out-of-memory check and leaves the
\* process table, the live-count, current_process and the bitmap as they were.
C6_OutOfMemoryConsumesNoSlot ==
  [][ ( /\ last'.op = "process_create"
        /\ FreeBlocks(memory_map) = {}
        /\ Live(processes) # Pids )
      => /\ last'.ret = PID_ERROR
         /\ last'.line = 133
         /\ UNCHANGED osVars
    ]_vars

\* C6's case: a create has just failed for lack of a block with a slot free
C6_Witness ==
  /\ last.op = "process_create" /\ last.line = 133
  /\ FreeBlocks(memory_map) = {}
  /\ Live(processes) # Pids
  /\ Live(processes) # {}

\* C7: terminate(pid) with pid out of range or the slot already Terminated
\* changes nothing; hence a terminate(pid) that directly follows a
\* terminate(pid) changes nothing: it frees no block and leaves the
\* live-count alone.
C7_TerminateIdempotent ==
  [][ last'.op = "process_terminate" =>
        /\ ( \/ last'.arg >= MAX_PROCESSES
             \/ processes[last'.arg].state = PROCESS_TERMINATED )
             => UNCHANGED osVars
        /\ ( last.op = "process_terminate" /\ last.arg = last'.arg )
             => UNCHANGED osVars
    ]_vars

\* C7's case: terminate has just been repeated on a Terminated slot whose
\* stale memory_start names a block that a live process now owns
C7_Witness ==
  /\ last.op = "process_terminate" /\ last.line = 159
  /\ last.arg \in Pids
  /\ \E q \in Live(processes) :
       /\ processes[q].memory_start = processes[last.arg].memory_start
       /\ memory_map[processes[q].memory_start \div PROCESS_MEMORY_SIZE]

(* --------------------------- claims: file table ---------------------- *)
InUse(table) == {f \in FileIds : table[f].in_use}
\* the C string held in a filename field: the characters before the first NUL
StrLen(stored) ==
  IF \E j \in NameIdx : stored[j] = 0
  THEN Min({j \in NameIdx : stored[j] = 0})
  ELSE MAX_FILENAME_LEN
StoredName(stored) == [k \in 1 .. StrLen(stored) |-> stored[k - 1]]

\* C3: no two in-use file entries hold the same stored filename, whatever
\* names (also names at or beyond the field limit) were created and deleted.
C3_StoredNamesUnique ==
  \A f, g \in InUse(file_table) :
    f # g => StoredName(file_table[f].filename) # StoredName(file_table[g].filename)

\* C8: create(name) made while an in-use entry was created with that name
\* (and not deleted since) and a free entry exists returns AlreadyExists (-2)
\* and leaves the file table unchanged, for every name, also the long ones.
C8_DuplicateCreateRejected ==
  [][ ( /\ last'.op = "fs_create"
        /\ \E f \in InUse(file_table) : created_as[f] = last'.name
        /\ InUse(file_table) # FileIds )
      => /\ last'.ret = -2
         /\ UNCHANGED file_table
    ]_vars

\* C9: delete(name) made while an in-use entry was created with that name
\* returns true and clears the in-use flag of exactly that entry; a
\* create(name) that directly follows the successful delete(name) succeeds
\* and returns the lowest-index free entry; delete(name) returns false and
\* changes nothing when no in-use entry holds that name.
C9_DeleteUndoesCreate ==
  [][ /\ ( /\ last'.op = "fs_delete"
           /\ \E f \in InUse(file_table) : created_as[f] = last'.name )
         => /\ last'.ret = 1
            /\ \E f \in InUse(file_table) :
                 /\ created_as[f] = last'.name
                 /\ file_table' = [file_table EXCEPT ![f].in_use = FALSE]
      /\ ( /\ last'.op = "fs_create"
           /\ last.op = "fs_delete" /\ last.ret = 1
           /\ last'.name = last.name )
         => /\ last'.ret = FindFreeFile(file_table)
            /\ last'.ret >= 0
            /\ file_table'[last'.ret].in_use
      /\ ( /\ last'.op = "fs_delete"
           /\ \A f \in InUse(file_table) :
                StoredName(file_table[f].filename) # last'.name )
         => /\ last'.ret = 0
            /\ UNCHANGED file_table
    ]_vars

\* C10: with every entry in use, create returns TableFull (-1) for every
\* name, new or duplicate, and leaves the table unchanged; after a delete
\* that removed one entry of the full table, create of that same name succeeds.
C10_TableFullThenRecreate ==
  [][ last'.op = "fs_create" =>
        /\ InUse(file_table) = FileIds
             => /\ last'.ret = -1
                /\ UNCHANGED file_table
        /\ ( /\ last.op = "fs_delete" /\ last.ret = 1
             /\ last'.name = last.name
             /\ Cardinality(InUse(file_table)) = MAX_FILES - 1 )
             => /\ last'.ret >= 0
                /\ file_table'[last'.ret].in_use
    ]_vars

(* --------------------------- claims: scheduler ------------------------ *)
\* the number of slots from cur forward to p, wrapping at the table's end
Dist(cur, p) == (p - cur) % MAX_PROCESSES
\* the Ready slots other than the current one
Candidates == Ready(processes) \ {current_process}

\* C13: with a live process, schedule() picks the first Ready slot in cyclic
\* order from current_process + 1, never current_process itself; if there is
\* one, the current process goes to Ready only if it was Running, the
\* candidate goes to Running and current_process becomes its slot, and no
\* other slot changes; if there is none, or no process is live, neither the
\* process table nor current_process changes.
C13_RoundRobinSelection ==
  [][ last'.op = "process_schedule" =>
        /\ (Candidates = {} \/ Live(processes) = {})
             => /\ processes' = processes
                /\ current_process' = current_process
        /\ (Candidates # {} /\ Live(processes) # {})
             => \E c \in Candidates :
                  /\ \A d \in Candidates :
                       Dist(current_process, c) <= Dist(current_process, d)
                  /\ current_process' = c
                  /\ processes' =
                       [p \in Pids |->
                          IF p = c
                          THEN [processes[p] EXCEPT !.state = PROCESS_RUNNING]
                          ELSE IF /\ p = current_process
                                  /\ processes[p].state = PROCESS_RUNNING
                          THEN [processes[p] EXCEPT !.state = PROCESS_READY]
                          ELSE processes[p]]
    ]_vars

\* C13's case: the scan has just wrapped around to slot 0, passing the
\* Terminated last slot, and demoted the process it preempted
C13_Witness ==
  /\ last.op = "process_schedule" /\ last.line = 188
  /\ current_process = 0
  /\ processes[0].state = PROCESS_RUNNING
  /\ processes[MAX_PROCESSES - 1].state = PROCESS_TERMINATED
  /\ processes[MAX_PROCESSES - 1].memory_size = PROCESS_MEMORY_SIZE
  /\ \E p \in Pids : processes[p].state = PROCESS_READY

\* schedule() calls enough to go through every (current slot, running slot)
\* pair that calls of schedule() alone can pass through
SchedRounds == MAX_PROCESSES * (MAX_PROCESSES + 1)

\* process p is Running in st or after at most k more schedule() calls
RECURSIVE RunsWithin(_, _, _)
RunsWithin(st, p, k) ==
  \/ st.procs[p].state = PROCESS_RUNNING
  \/ k > 0 /\ RunsWithin(ScheduleOnce(st), p, k - 1)

\* C14: from every reachable state, calling schedule() repeatedly with no
\* create or terminate in between makes every Ready process Running at some
\* point: no Ready process is starved.
C14_NoReadyProcessStarves ==
  \A p \in Ready(processes) :
    RunsWithin([procs |-> processes, cur |-> current_process,
                count |-> process_count], p, SchedRounds)

\* C15: a slot's state changes only Terminated -> Ready in a create,
\* Ready -> Running or Running -> Ready in a schedule, and non-Terminated ->
\* Terminated in a terminate; and no process is ever Blocked.
C15_Lifecycle ==
  /\ [](\A p \in Pids : processes[p].state # PROCESS_BLOCKED)
  /\ [][ \A p \in Pids :
           processes'[p].state # processes[p].state =>
             \/ /\ processes[p].state = PROCESS_TERMINATED
                /\ processes'[p].state = PROCESS_READY
                /\ last'.op = "process_create"
             \/ /\ processes[p].state = PROCESS_READY
                /\ processes'[p].state = PROCESS_RUNNING
                /\ last'.op = "process_schedule"
             \/ /\ processes[p].state = PROCESS_RUNNING
                /\ processes'[p].state = PROCESS_READY
                /\ last'.op = "process_schedule"
             \/ /\ processes[p].state # PROCESS_TERMINATED
                /\ processes'[p].state = PROCESS_TERMINATED
                /\ last'.op = "process_terminate"
      ]_vars

\* C15's case: the slot the scheduler had made Running was terminated and
\* has just been created again, next to a Ready process and a slot that was
\* created and terminated
C15_Witness ==
  /\ last.op = "process_create" /\ last.line = 153
  /\ current_process = last.ret /\ current_process # 0
  /\ \E p \in Pids \ {last.ret} : processes[p].state = PROCESS_READY
  /\ \E p \in Pids : /\ processes[p].state = PROCESS_TERMINATED
                      /\ processes[p].memory_size = PROCESS_MEMORY_SIZE

(* --------------------------- claims: allocator ------------------------ *)
\* C11: allocate() returns the byte offset of the lowest-index free block
\* and sets that flag and no other; with every flag set it returns the
\* Exhausted value and leaves the bitmap unchanged; the block it returns was
\* not marked used, and the Exhausted value is no block's offset.
C11_AllocateLowestFree ==
  [][ last'.op = "memory_allocate" =>
        /\ (\E b \in Blocks : ~memory_map[b])
             => \E b \in Blocks :
                  /\ ~memory_map[b]
                  /\ \A c \in Blocks : c < b => memory_map[c]
                  /\ last'.ret = b * PROCESS_MEMORY_SIZE
                  /\ memory_map' = [memory_map EXCEPT ![b] = TRUE]
        /\ (\A b \in Blocks : memory_map[b])
             => /\ last'.ret = MEM_ERROR
                /\ memory_map' = memory_map
        /\ \A b \in Blocks :
             /\ (last'.ret = b * PROCESS_MEMORY_SIZE => ~memory_map[b])
             /\ MEM_ERROR # b * PROCESS_MEMORY_SIZE
    ]_vars

\* C11's case: allocate has just filled the hole at block 0 that a free or a
\* terminate left below a used block, with a higher block still free
C11_Witness ==
  /\ last.op = "memory_allocate" /\ last.ret = 0
  /\ memory_map[0] /\ memory_map[1]
  /\ \E b \in Blocks : ~memory_map[b]

\* C12: free(offset) leaves the bitmap unchanged whenever offset is not the
\* start offset of an in-range block that is marked used: offsets of free
\* blocks, offsets that are no multiple of the block size, and the Exhausted
\* value.
C12_FreeIgnoresOtherOffsets ==
  [][ ( /\ last'.op = "memory_free"
        /\ ~ \E b \in Blocks : /\ last'.arg = b * PROCESS_MEMORY_SIZE
                               /\ memory_map[b] )
      => memory_map' = memory_map
    ]_vars

(* --------------------------- claims: framing -------------------------- *)
\* C16: file create and delete change neither the bitmap, the process table,
\* the live-count nor current_process; process create, terminate and
\* schedule do not change the file table; schedule changes neither the
\* bitmap, the live-count, nor which slots are Terminated.
C16_SubsystemsFramedApart ==
  [][ /\ last'.op \in {"fs_create", "fs_delete"}
           => UNCHANGED <<memory_map, processes, current_process, process_count>>
      /\ last'.op \in {"process_create", "process_terminate", "process_schedule"}
           => UNCHANGED file_table
      /\ last'.op = "process_schedule"
           => /\ UNCHANGED <<memory_map, process_count>>
              /\ \A p \in Pids : processes'[p].state = PROCESS_TERMINATED
                                    <=> processes[p].state = PROCESS_TERMINATED
    ]_vars

\* C16's case: a file has just been deleted while a process is Running and
\* holds block 0, and another file is in use
C16_Witness ==
  /\ last.op = "fs_delete" /\ last.ret = 1
  /\ InUse(file_table) # {}
  /\ memory_map[0]
  /\ Running(processes) # {}
  /\ Ready(processes) # {}

(* --------------------------- claims: bookkeeping ---------------------- *)
\* C17: process_count equals the number of slots whose state is not
\* Terminated; it stays within 0 .. MAX_PROCESSES and never wraps around its
\* 8 bits.
C17_LiveCountExact ==
  /\ process_count = Cardinality(Live(processes))
  /\ process_count \in 0 .. MAX_PROCESSES

\* C17's case: terminate has just been repeated on a Terminated slot with
\* the live-count already 0, where a second decrement would wrap to 255
C17_Witness ==
  /\ last.op = "process_terminate" /\ last.line = 159
  /\ last.arg \in Pids
  /\ processes[last.arg].memory_size = PROCESS_MEMORY_SIZE
  /\ process_count = 0

\* C18: a Running process is always in slot current_process, and
\* current_process changes in schedule steps only.
C18_RunningIsCurrent ==
  /\ [](\A p \in Pids : processes[p].state = PROCESS_RUNNING => p = current_process)
  /\ [][current_process' # current_process => last'.op = "process_schedule"]_vars

\* C18's case: current_process names a slot that was terminated while
\* Running and then created again, so it is Ready with nothing Running
C18_Witness ==
  /\ last.op = "process_create" /\ last.line = 153
  /\ last.ret = current_process /\ current_process # 0
  /\ processes[current_process].state = PROCESS_READY
  /\ Running(processes) = {}

\* C18's other case: current_process names a Terminated slot
C18_CurrentMayBeTerminated ==
  /\ last.op = "process_terminate" /\ last.line = 168
  /\ last.arg = current_process /\ current_process # 0
  /\ processes[current_process].state = PROCESS_TERMINATED

\* C19: under create / terminate / schedule alone, the live process in slot
\* i owns the block at offset i * PROCESS_MEMORY_SIZE, and create never
\* takes the out-of-memory return.
C19_SlotOwnsSameIndexBlock ==
  /\ \A p \in Live(processes) :
       /\ processes[p].memory_start = p * PROCESS_MEMORY_SIZE
       /\ memory_map[p]
  /\ ~(last.op = "process_create" /\ last.line = 133)
  /\ NUM_BLOCKS = MAX_PROCESSES

\* C19's case: a slot above slot 0 that had been scheduled and terminated
\* has just been created again and got the block of its own index
C19_Witness ==
  /\ last.op = "process_create" /\ last.line = 153 /\ last.ret > 0
  /\ current_process = last.ret
  /\ processes[last.ret].memory_start = last.ret * PROCESS_MEMORY_SIZE
  /\ Live(processes) = Pids

TypeOK ==
  /\ memory_map \in [Blocks -> BOOLEAN]
  /\ \A p \in Pids : processes[p].state \in ProcessState
  /\ current_process \in Pids
  /\ process_count \in 0 .. 255
  /\ \A f \in FileIds : file_table[f].in_use \in BOOLEAN
====
